---- MODULE Spec2Model ----
(***************************************************************************)
(* A model of the OMR scoring pipeline of src/omr_core.py:                 *)
(*   parse_answer_key        the Answer Key Reader                         *)
(*   find_and_sort_bubbles   the Grid Orderer (after the shape filter)     *)
(*   extract_student_answers the Mark Selector                             *)
(*   score_omr_sheets        the Scorer and the batch loop                 *)
(*                                                                         *)
(* An image is abstracted to what the pipeline reads from it: whether it   *)
(* could be loaded, and the accepted contours in detection order, each     *)
(* with its bounding-box corner (x, y) and the number of foreground pixels *)
(* inside it (total).  Text is a sequence of one-character strings.        *)
(***************************************************************************)
EXTENDS Integers, Sequences, FiniteSets, TLC

VARIABLES
    pc,                 \* position of the operation under way
    key_cells,          \* df.values.flatten(): the cells of the key file
    key_raise,          \* the cell at which reading the key raises (0: read_csv)
    answer_key,         \* what parse_answer_key returned
    omr_images,         \* the submitted sheets, in submission order
    idx,                \* number of sheets the batch loop has gone through
    final_html_report,  \* the fragments appended to the report, in order
    returned,           \* what score_omr_sheets returned
    question_cnts,      \* accepted contours handed to an operation
    bubbles,            \* what find_and_sort_bubbles returned
    detected,           \* len(bubbles) of each sheet gone through, -1 if it raised
    student_answers,    \* what extract_student_answers returned
    results             \* score and results_data of one scored sheet

vars == <<pc, key_cells, key_raise, answer_key, omr_images, idx,
          final_html_report, returned, question_cnts, bubbles, detected,
          student_answers, results>>

-----------------------------------------------------------------------------
(* Program constants *)

NumQuestions == 100      \* range(1, 101)
MinBubbles == 100        \* len(bubbles) < 100
MultiColumnAbove == 100  \* len(question_cnts) > 100
NumBands == 5            \* col_width = span / 5
LastBand == 4            \* min(4, ...)
GroupSize == 4           \* len(question_cnts) // 4
DarkThreshold == 150     \* bubbled[0] > 150

(* Bounds of the model *)

MaxCells == 3            \* cells in a key file
MaxSheets == 2           \* sheets in a batch
MaxExtra == 3            \* free contours added to a grid of contours
MaxLen == 8              \* contours handed to the Mark Selector
MaxQ == 101              \* largest question number of a drawn key or response

-----------------------------------------------------------------------------
(* Python values *)

\* {} : the empty dict
EmptyDict == <<>>

\* d[k] = v
DictSet(d, k, v) == [q \in (DOMAIN d) \cup {k} |-> IF q = k THEN v ELSE d[q]]

\* d.get(k, default)
DictGet(d, k, default) == IF k \in DOMAIN d THEN d[k] ELSE default

\* Python's comparison of two tuples of integers of the same length
RECURSIVE TupleLess(_, _)
TupleLess(a, b) ==
    IF a = <<>> \/ b = <<>> THEN FALSE
    ELSE IF Head(a) # Head(b) THEN Head(a) < Head(b)
    ELSE TupleLess(Tail(a), Tail(b))

\* sorted(s, key=...), k[i] being the key of s[i]: a stable sort.  The
\* element at input position i goes to the position that counts the elements
\* that must precede it: those with a smaller key, and those with an equal
\* key that come earlier in s.
sorted(s, keys) ==
    LET n == Len(s)
        k == keys \o <<>>
        rank == [i \in 1..n |->
                   Cardinality({j \in 1..n : \/ TupleLess(k[j], k[i])
                                             \/ (k[j] = k[i] /\ j < i)}) + 1] \o <<>>
        at == [p \in 1..n |-> CHOOSE i \in 1..n : rank[i] = p] \o <<>>
    IN [p \in 1..n |-> s[at[p]]] \o <<>>

\* chr(ord('A') + j)
Letter(j) == <<"A", "B", "C", "D">>[j + 1]

-----------------------------------------------------------------------------
(* parse_answer_key *)

Digits == {"0", "1", "2", "3", "4", "5", "6", "7", "8", "9"}
DigitValue(c) ==
    CASE c = "0" -> 0 [] c = "1" -> 1 [] c = "2" -> 2 [] c = "3" -> 3
      [] c = "4" -> 4 [] c = "5" -> 5 [] c = "6" -> 6 [] c = "7" -> 7
      [] c = "8" -> 8 [] c = "9" -> 9

\* \s
Whitespace == {" ", "\t"}
\* [-.\s]
Separators == {"-", "."} \cup Whitespace
\* [a-d] under re.IGNORECASE
AnswerLetters == {"a", "b", "c", "d", "A", "B", "C", "D"}

\* str.upper() on one letter
upper(c) ==
    CASE c = "a" -> "A" [] c = "b" -> "B" [] c = "c" -> "C" [] c = "d" -> "D"
      [] OTHER -> c

\* int(text) for a run of decimal digits
RECURSIVE int(_)
int(text) ==
    IF text = <<>> THEN 0
    ELSE 10 * int(SubSeq(text, 1, Len(text) - 1)) + DigitValue(text[Len(text)])

\* pd.isna(item): an empty field, or one of the strings read_csv reads as NaN
isna(item) == item \in {<<>>, <<"N", "A">>}

\* The ways (\d+)\s*[-.\s]\s*([a-d]) matches inside text: <<s, d, a, b>> is
\* a match that starts at s with d digits, a whitespace characters, one
\* separator, b whitespace characters and the letter.
re_matches(text) ==
    LET n == Len(text)
        run(from, to, class) == \A i \in from..to : text[i] \in class
    IN UNION { UNION { UNION { { <<s, d, a, b>> :
                   b \in {b \in 0..(n - s - d - a - 1) :
                            /\ run(s + d + a + 1, s + d + a + b, Whitespace)
                            /\ text[s + d + a + b + 1] \in AnswerLetters} } :
               a \in {a \in 0..(n - s - d - 1) :
                        /\ run(s + d, s + d + a - 1, Whitespace)
                        /\ text[s + d + a] \in Separators} } :
           d \in {d \in 1..(n - s) : run(s, s + d - 1, Digits)} } :
       s \in {s \in 1..n : text[s] \in Digits} }

\* re.search: the leftmost match, each quantifier as greedy as a match allows
re_search(text) ==
    LET ms == re_matches(text)
        before(m, o) == TupleLess(<<m[1], -m[2], -m[3], -m[4]>>,
                                  <<o[1], -o[2], -o[3], -o[4]>>)
    IN IF ms = {} THEN [found |-> FALSE, group1 |-> <<>>, group2 |-> ""]
       ELSE LET m == CHOOSE m \in ms : \A o \in ms \ {m} : before(m, o)
            IN [found |-> TRUE,
                group1 |-> SubSeq(text, m[1], m[1] + m[2] - 1),
                group2 |-> text[m[1] + m[2] + m[3] + m[4] + 1]]

\* The body of the loop over the cells: answers after one more item
\* (variant: an entry already written is kept)
key_item_first_wins(answers, item) ==
    IF isna(item) THEN answers
    ELSE LET match == re_search(item)
         IN IF match.found /\ int(match.group1) \notin DOMAIN answers
            THEN DictSet(answers, int(match.group1), upper(match.group2))
            ELSE answers
key_item(answers, item) ==
    IF isna(item) THEN answers
    ELSE LET match == re_search(item)
         IN IF match.found
            THEN DictSet(answers, int(match.group1), upper(match.group2))
            ELSE answers

\* answers after the first n cells
RECURSIVE key_loop(_, _)
key_loop(cells, n) ==
    IF n = 0 THEN EmptyDict ELSE key_item(key_loop(cells, n - 1), cells[n])

\* The except clause of parse_answer_key: the value returned when reading
\* raised at cell raise_at, with cells 1..raise_at-1 already accumulated
\* (variant: the handler hands back what was accumulated)
key_except_partial(cells, raise_at) ==
    [error |-> FALSE,
     answers |-> key_loop(cells, IF raise_at = 0 THEN 0 ELSE raise_at - 1)]
key_except(cells, raise_at) == [error |-> TRUE, answers |-> EmptyDict]

\* parse_answer_key on a file with these cells; reading raises at cell
\* raise_at (0: pd.read_csv raises), or not at all when raise_at > Len(cells)
parse_answer_key(cells, raise_at) ==
    IF raise_at <= Len(cells) THEN key_except(cells, raise_at)
    ELSE [error |-> FALSE, answers |-> key_loop(cells, Len(cells))]

-----------------------------------------------------------------------------
(* find_and_sort_bubbles *)

SetMin(S) == CHOOSE m \in S : \A o \in S : m <= o
SetMax(S) == CHOOSE m \in S : \A o \in S : m >= o

\* key=lambda c: (boundingRect(c)[0], boundingRect(c)[1])
key_xy(c) == <<c.x, c.y>>

\* if len(question_cnts) > 100
multi_column(cnts) == Len(cnts) > MultiColumnAbove

\* get_col(x), given min(x_coords) and max(x_coords).  col_width is the
\* float (max_x - min_x) / 5, and int((x - min_x) / col_width) is the floor
\* of 5 (x - min_x) / (max_x - min_x): the quotient is exact whenever it is
\* an integer below 5, and is otherwise at least 1 / (max_x - min_x) away
\* from one.  With col_width = 0.0 the division raises ZeroDivisionError.
get_col(x, min_x, max_x) ==
    IF max_x = min_x THEN [raised |-> TRUE, col |-> 0]
    ELSE LET q == (NumBands * (x - min_x)) \div (max_x - min_x)
         IN [raised |-> FALSE, col |-> IF q < LastBand THEN q ELSE LastBand]

\* find_and_sort_bubbles(image), from the contours that passed the shape
\* filter.  cv2.cvtColor raises on an image that cv2.imread could not load.
find_and_sort_bubbles(image) ==
    IF ~image.loaded THEN [raised |-> TRUE, cnts |-> <<>>]
    ELSE LET cnts == sorted(image.cnts, [i \in 1..Len(image.cnts) |-> key_xy(image.cnts[i])])
         IN IF multi_column(cnts)
            THEN LET x_coords == {cnts[i].x : i \in 1..Len(cnts)}
                     min_x == SetMin(x_coords)
                     max_x == SetMax(x_coords)
                     key_col == [i \in 1..Len(cnts) |->
                                   <<get_col(cnts[i].x, min_x, max_x).col, cnts[i].y>>]
                 IN IF get_col(cnts[1].x, min_x, max_x).raised
                    THEN [raised |-> TRUE, cnts |-> <<>>]
                    ELSE [raised |-> FALSE, cnts |-> sorted(cnts, key_col)]
            ELSE [raised |-> FALSE, cnts |-> cnts]

-----------------------------------------------------------------------------
(* extract_student_answers *)

\* key=lambda c: boundingRect(c)[0]
key_x(c) == <<c.x>>

\* row_cnts of question i (0-based): the group's contours, left to right
\* (variant: the group is not sorted again)
row_cnts_as_emitted(cnts, i) == SubSeq(cnts, i * GroupSize + 1, i * GroupSize + GroupSize)
row_cnts(cnts, i) ==
    LET group == SubSeq(cnts, i * GroupSize + 1, i * GroupSize + GroupSize)
    IN sorted(group, [j \in 1..Len(group) |-> key_x(group[j])])

\* bubbled after the first n contours of the row: None (<<>>) or (total, j)
\* (variant: an equal total replaces the maximum)
RECURSIVE bubbled_last_max(_, _)
bubbled_last_max(row, n) ==
    IF n = 0 THEN <<>>
    ELSE LET prev == bubbled_last_max(row, n - 1)
             total == row[n].total
         IN IF prev = <<>> \/ total >= prev[1] THEN <<total, n - 1>> ELSE prev
RECURSIVE bubbled(_, _)
bubbled(row, n) ==
    IF n = 0 THEN <<>>
    ELSE LET prev == bubbled(row, n - 1)
             total == row[n].total
         IN IF prev = <<>> \/ total > prev[1] THEN <<total, n - 1>> ELSE prev

\* if bubbled and bubbled[0] > 150
is_marked(b) == b # <<>> /\ b[1] > DarkThreshold

\* extract_student_answers(question_cnts, thresh): each question is written
\* once, so the dict is the function on the marked questions
extract_student_answers(cnts) ==
    LET num_questions == Len(cnts) \div GroupSize
        mark == [i \in 0..(num_questions - 1) |->
                   bubbled(row_cnts(cnts, i), GroupSize)]
    IN [q \in {i + 1 : i \in {i \in 0..(num_questions - 1) : is_marked(mark[i])}} |->
          Letter(mark[q - 1][2])]

-----------------------------------------------------------------------------
(* score_omr_sheets: the scoring of one sheet *)

\* The status of a row
\* (variant: any mark is right where the key has no entry)
status_loose(student_answer, correct_answer) ==
    IF student_answer # "Unanswered"
    THEN IF student_answer = correct_answer \/ correct_answer = "N/A"
         THEN "Correct" ELSE "Incorrect"
    ELSE "Unanswered"
status(student_answer, correct_answer) ==
    IF student_answer # "Unanswered"
    THEN IF student_answer = correct_answer THEN "Correct" ELSE "Incorrect"
    ELSE "Unanswered"

\* [q_num, student_answer, correct_answer, status]
result_row(key, answers, q_num) ==
    LET correct_answer == DictGet(key, q_num, "N/A")
        student_answer == DictGet(answers, q_num, "Unanswered")
    IN <<q_num, student_answer, correct_answer,
         status(student_answer, correct_answer)>>

\* results_data after the loop over range(1, 101)
\* (variant: rows up to the last question of the response only)
results_data_of_response(key, answers) ==
    LET qs == (DOMAIN answers) \cap (1..NumQuestions)
        last == IF qs = {} THEN 0 ELSE SetMax(qs)
    IN [q_num \in 1..last |-> result_row(key, answers, q_num)]
results_data(key, answers) ==
    [q_num \in 1..NumQuestions |-> result_row(key, answers, q_num)]

\* score after the loop: one increment for each Correct row
score(key, answers) ==
    Cardinality({q_num \in 1..NumQuestions :
                   result_row(key, answers, q_num)[4] = "Correct"})

-----------------------------------------------------------------------------
(* score_omr_sheets: the batch *)

\* One append to final_html_report
Fragment(tag, sheet, value, rows) ==
    [tag |-> tag, sheet |-> sheet, value |-> value, rows |-> rows]

\* if len(bubbles) < 100
\* (variant: a sheet with exactly 100 is skipped too)
too_few_or_equal(found) == Len(found) <= MinBubbles
too_few(found) == Len(found) < MinBubbles

\* The appends of one pass of the loop over omr_images, for the sheet at
\* position i, found being what find_and_sort_bubbles did on its image.
\* sheet.fault names the step of this sheet, if any, in which a library call
\* raises: "select" (extract_student_answers), "score" (the scoring loop) or
\* "assemble" (DataFrame, Styler, to_html).
sheet_appends(i, sheet, key, found) ==
    LET error == Fragment("error", i, 0, <<>>)
    IN IF found.raised THEN <<error>>
       ELSE IF too_few(found.cnts)
       THEN <<Fragment("warning", i, Len(found.cnts), <<>>)>>
       ELSE IF sheet.fault = "select" THEN <<error>>
       ELSE LET answers == extract_student_answers(found.cnts)
            IN IF sheet.fault = "score" THEN <<error>>
               ELSE LET head == << Fragment("results_h2", i, 0, <<>>),
                                   Fragment("score", i, score(key, answers), <<>>) >>
                    IN IF sheet.fault = "assemble" THEN head \o <<error>>
                       ELSE head \o << Fragment("table", i, 0, results_data(key, answers)),
                                       Fragment("hr", i, 0, <<>>) >>

-----------------------------------------------------------------------------
(* Inputs *)

BoundedSeq(S, n) == UNION {[1..k -> S] : k \in 0..n}

\* A contour: its identity, its bounding-box corner, its foreground pixels
Contour(id, x, y, total) == [id |-> id, x |-> x, y |-> y, total |-> total]

\* n contours laid out row by row in a grid with cols columns, every third
\* one filled in
GridCnts(n, cols) ==
    [i \in 1..n |-> Contour(i, 40 + ((i - 1) % cols) * 30,
                               50 + ((i - 1) \div cols) * 25,
                               IF i % 3 = 0 THEN 300 ELSE 20)]

Image(cnts) == [loaded |-> TRUE, cnts |-> cnts]
Unreadable == [loaded |-> FALSE, cnts |-> <<>>]

\* The sheets of a batch: around the minimum number of bubbles, in several
\* columns or in one, with or without a library call that raises
SheetInputs ==
    { [image |-> Image(GridCnts(n, 4)), fault |-> "none"] :
          n \in {MinBubbles - 1, MinBubbles, MultiColumnAbove + 1} }
    \cup { [image |-> Image(GridCnts(MinBubbles, 4)), fault |-> f] :
          f \in {"select", "score", "assemble"} }
    \cup { [image |-> Image(GridCnts(MultiColumnAbove + 1, 1)), fault |-> "none"],
           [image |-> Unreadable, fault |-> "none"] }

\* The cells of the key file of a batch
BatchKeyCells ==
    << <<"3", "-", "B">>, <<"2", " ", "c">>, <<"n", "o">>, <<"1", ".", "a">> >>

\* The cells a key file is drawn from
Cells ==
    { <<"3", "7", "-", "B">>, <<"3", "7", " ", "b">>, <<"3", "7", ".", "B">>,
      <<"n", "o", "t", "a", "n", "e", "n", "t", "r", "y">>,
      <<>>,
      <<"3", "7", "-", "a">>, <<"7", ".", "c">>, <<"3", "7", "B">>,
      <<"3", ".", "7", " ", "-", " ", "d">> }

\* The contours the Grid Orderer is given: a grid two short of the
\* multi-column count, and before it up to MaxExtra more, on or off the grid
ExtraSpots == {<<40, 50>>, <<40, 900>>, <<55, 60>>, <<700, 50>>}
GridInput(extras, cols) ==
    LET base == GridCnts(MultiColumnAbove - 2, cols)
        k == Len(extras)
    IN [i \in 1..(k + Len(base)) |->
          IF i <= k THEN Contour(i, extras[i][1], extras[i][2], 0)
          ELSE Contour(i, base[i - k].x, base[i - k].y, 0)]
GridInputs ==
    { GridInput(extras, cols) :
          extras \in BoundedSeq(ExtraSpots, MaxExtra), cols \in {1, 4, 20} }

\* The contours the Mark Selector is given: a first group with any of these
\* positions and pixel counts, then a repeated group
MarkXs == { <<10, 20, 30, 40>>, <<40, 30, 20, 10>>, <<20, 10, 40, 30>>,
            <<10, 10, 20, 20>>, <<20, 10, 20, 10>> }
MarkTotals == {0, DarkThreshold, DarkThreshold + 1, DarkThreshold + 2}
MarkRepeats == { [x |-> <<40, 30, 20, 10>>, total |-> <<0, 200, 0, 0>>],
                 [x |-> <<10, 20, 30, 40>>,
                  total |-> <<DarkThreshold, 0, DarkThreshold, 0>>] }
MarkInput(xs, totals, rep, n) ==
    [p \in 1..n |->
        LET r == ((p - 1) % GroupSize) + 1
        IN IF p <= GroupSize THEN Contour(p, xs[r], 50, totals[r])
           ELSE Contour(p, rep.x[r], 50 + 25 * ((p - 1) \div GroupSize), rep.total[r])]
MarkInputs ==
    { MarkInput(xs, totals, rep, n) :
          xs \in MarkXs, totals \in [1..GroupSize -> MarkTotals],
          rep \in MarkRepeats, n \in 0..MaxLen }

\* The keys and responses the Scorer is given
Dicts(questions, letters) ==
    UNION { [qs -> letters] : qs \in SUBSET questions }
ScoreKeys == Dicts({1, 2, NumQuestions, MaxQ}, {"A", "B"})
ScoreResponses == Dicts({1, 2, 3, NumQuestions, MaxQ}, {"A", "C"})

-----------------------------------------------------------------------------
(* The operations *)

NoKey == [error |-> FALSE, answers |-> EmptyDict]
NoBubbles == [raised |-> FALSE, cnts |-> <<>>]
NoResults == [score |-> 0, rows |-> <<>>]

(* score_omr_sheets on a batch of sheets *)

Init ==
    /\ pc = "start"
    /\ omr_images \in BoundedSeq(SheetInputs, MaxSheets)
    /\ key_cells = <<>>
    /\ key_raise = 1
    /\ answer_key = NoKey
    /\ idx = 0
    /\ final_html_report = <<>>
    /\ returned = "nothing"
    /\ question_cnts = <<>>
    /\ bubbles = NoBubbles
    /\ detected = <<>>
    /\ student_answers = EmptyDict
    /\ results = NoResults

\* if omr_images is None or answer_key_file is None: no key file was uploaded
MissingInput ==
    /\ pc = "start"
    /\ pc' = "done"
    /\ returned' = "missing_input"
    /\ UNCHANGED <<detected, key_cells, key_raise, answer_key, omr_images, idx,
                   final_html_report, question_cnts, bubbles, student_answers,
                   results>>

\* answer_key = parse_answer_key(...); if "error" in answer_key: return
ReadKey ==
    /\ pc = "start"
    /\ \E raise_at \in 0..(Len(BatchKeyCells) + 1) :
         /\ key_cells' = BatchKeyCells
         /\ key_raise' = raise_at
         /\ answer_key' = parse_answer_key(BatchKeyCells, raise_at)
    /\ IF answer_key'.error
       THEN pc' = "done" /\ returned' = "key_error"
       ELSE pc' = "loop" /\ returned' = returned
    /\ UNCHANGED <<detected, omr_images, idx, final_html_report, question_cnts, bubbles,
                   student_answers, results>>

\* One pass of the loop over omr_images
ProcessSheet ==
    /\ pc = "loop"
    /\ idx < Len(omr_images)
    /\ \E found \in {find_and_sort_bubbles(omr_images[idx + 1].image)} :
          /\ bubbles' = found
          /\ detected' = Append(detected, IF found.raised THEN -1 ELSE Len(found.cnts))
          /\ final_html_report' =
                 final_html_report
                   \o sheet_appends(idx + 1, omr_images[idx + 1], answer_key.answers, found)
    /\ idx' = idx + 1
    /\ UNCHANGED <<pc, key_cells, key_raise, answer_key, omr_images, returned,
                   question_cnts, student_answers, results>>

\* return final_html_report
ReturnReport ==
    /\ pc = "loop"
    /\ idx = Len(omr_images)
    /\ pc' = "done"
    /\ returned' = "report"
    /\ UNCHANGED <<detected, key_cells, key_raise, answer_key, omr_images, idx,
                   final_html_report, question_cnts, bubbles, student_answers,
                   results>>

Next == MissingInput \/ ReadKey \/ ProcessSheet \/ ReturnReport

Spec == Init /\ [][Next]_vars

(* parse_answer_key on a key file *)

InitKey ==
    /\ pc = "key"
    /\ key_cells \in BoundedSeq(Cells, MaxCells)
    /\ key_raise = Len(key_cells) + 1
    /\ answer_key = NoKey
    /\ omr_images = <<>>
    /\ idx = 0
    /\ final_html_report = <<>>
    /\ returned = "nothing"
    /\ question_cnts = <<>>
    /\ bubbles = NoBubbles
    /\ detected = <<>>
    /\ student_answers = EmptyDict
    /\ results = NoResults

ParseKey ==
    /\ pc = "key"
    /\ pc' = "key_done"
    /\ \E raise_at \in 0..(Len(key_cells) + 1) :
         /\ key_raise' = raise_at
         /\ answer_key' = parse_answer_key(key_cells, raise_at)
    /\ UNCHANGED <<detected, key_cells, omr_images, idx, final_html_report, returned,
                   question_cnts, bubbles, student_answers, results>>

NextKey == ParseKey

SpecKey == InitKey /\ [][NextKey]_vars

(* find_and_sort_bubbles on the contours of an image *)

InitGrid ==
    /\ pc = "grid"
    /\ question_cnts \in GridInputs
    /\ key_cells = <<>>
    /\ key_raise = 1
    /\ answer_key = NoKey
    /\ omr_images = <<>>
    /\ idx = 0
    /\ final_html_report = <<>>
    /\ returned = "nothing"
    /\ bubbles = NoBubbles
    /\ detected = <<>>
    /\ student_answers = EmptyDict
    /\ results = NoResults

OrderGrid ==
    /\ pc = "grid"
    /\ pc' = "grid_done"
    /\ bubbles' = find_and_sort_bubbles(Image(question_cnts))
    /\ UNCHANGED <<detected, key_cells, key_raise, answer_key, omr_images, idx,
                   final_html_report, returned, question_cnts, student_answers,
                   results>>

NextGrid == OrderGrid

SpecGrid == InitGrid /\ [][NextGrid]_vars

(* extract_student_answers on an ordered sequence of contours *)

InitMark ==
    /\ pc = "mark"
    /\ question_cnts \in MarkInputs
    /\ key_cells = <<>>
    /\ key_raise = 1
    /\ answer_key = NoKey
    /\ omr_images = <<>>
    /\ idx = 0
    /\ final_html_report = <<>>
    /\ returned = "nothing"
    /\ bubbles = NoBubbles
    /\ detected = <<>>
    /\ student_answers = EmptyDict
    /\ results = NoResults

SelectMarks ==
    /\ pc = "mark"
    /\ pc' = "mark_done"
    /\ student_answers' = extract_student_answers(question_cnts)
    /\ UNCHANGED <<detected, key_cells, key_raise, answer_key, omr_images, idx,
                   final_html_report, returned, question_cnts, bubbles, results>>

NextMark == SelectMarks

SpecMark == InitMark /\ [][NextMark]_vars

(* The scoring loop of score_omr_sheets on a key and a response *)

InitScore ==
    /\ pc = "score"
    /\ answer_key \in {[error |-> FALSE, answers |-> k] : k \in ScoreKeys}
    /\ student_answers \in ScoreResponses
    /\ key_cells = <<>>
    /\ key_raise = 1
    /\ omr_images = <<>>
    /\ idx = 0
    /\ final_html_report = <<>>
    /\ returned = "nothing"
    /\ question_cnts = <<>>
    /\ bubbles = NoBubbles
    /\ detected = <<>>
    /\ results = NoResults

ScoreSheet ==
    /\ pc = "score"
    /\ pc' = "score_done"
    /\ results' = [score |-> score(answer_key.answers, student_answers),
                   rows |-> results_data(answer_key.answers, student_answers)]
    /\ UNCHANGED <<detected, key_cells, key_raise, answer_key, omr_images, idx,
                   final_html_report, returned, question_cnts, bubbles,
                   student_answers>>

NextScore == ScoreSheet

SpecScore == InitScore /\ [][NextScore]_vars

-----------------------------------------------------------------------------
(* Properties of the Scorer, under SpecScore *)

\* C1: the Score Report of a scored sheet has exactly 100 rows and row k
\* carries question number k, so every question 1..100 appears exactly once,
\* in ascending order, and no other question number appears, whatever the
\* key and the response hold.
ReportCoversEveryQuestionOnce ==
    pc = "score_done" =>
        /\ DOMAIN results.rows = 1..NumQuestions
        /\ \A k \in DOMAIN results.rows : results.rows[k][1] = k
        /\ \A q \in 1..NumQuestions :
             Cardinality({k \in DOMAIN results.rows : results.rows[k][1] = q}) = 1
        /\ \A k \in DOMAIN results.rows : results.rows[k][1] \in 1..NumQuestions

\* A scored response that holds a question above 100 and lacks question 3
ReportOfSparseResponse ==
    /\ pc = "score_done"
    /\ MaxQ \in DOMAIN student_answers
    /\ 3 \notin DOMAIN student_answers
    /\ Len(results.rows) = NumQuestions

\* C2: row q is Unanswered if the response has no mark for q, Correct if the
\* student's letter is the key's letter for q, Incorrect otherwise (also
\* when the key has no entry for q); the score is the number of Correct
\* rows; key {1:A, 2:B} and response {1:A, 2:C, 3:A} give score 1 and the
\* rows (1,A,A,Correct), (2,C,B,Incorrect), (3,A,N/A,Incorrect) and
\* (q,Unanswered,N/A,Unanswered) for q = 4..100.
StatusAndScoreFollowTheRule ==
    pc = "score_done" =>
        LET key == answer_key.answers
            rows == results.rows
        IN /\ \A q \in 1..NumQuestions :
                /\ q \in DOMAIN rows
                /\ rows[q][2] = (IF q \in DOMAIN student_answers
                                 THEN student_answers[q] ELSE "Unanswered")
                /\ rows[q][3] = (IF q \in DOMAIN key THEN key[q] ELSE "N/A")
                /\ rows[q][4] =
                     (IF q \notin DOMAIN student_answers THEN "Unanswered"
                      ELSE IF q \in DOMAIN key /\ key[q] = student_answers[q]
                      THEN "Correct" ELSE "Incorrect")
           /\ results.score =
                Cardinality({q \in DOMAIN rows : rows[q][4] = "Correct"})
           /\ (/\ key = (1 :> "A" @@ 2 :> "B")
               /\ student_answers = (1 :> "A" @@ 2 :> "C" @@ 3 :> "A"))
              => /\ results.score = 1
                 /\ rows[1] = <<1, "A", "A", "Correct">>
                 /\ rows[2] = <<2, "C", "B", "Incorrect">>
                 /\ rows[3] = <<3, "A", "N/A", "Incorrect">>
                 /\ \A q \in 4..NumQuestions :
                      q \in DOMAIN rows
                      /\ rows[q] = <<q, "Unanswered", "N/A", "Unanswered">>

\* The end-to-end scenario, scored
ScenarioScored ==
    /\ pc = "score_done"
    /\ answer_key.answers = (1 :> "A" @@ 2 :> "B")
    /\ student_answers = (1 :> "A" @@ 2 :> "C" @@ 3 :> "A")
    /\ results.rows[3][4] = "Incorrect"

-----------------------------------------------------------------------------
(* Properties of the Mark Selector, under SpecMark *)

\* The group of question i + 1 as the sequence hands it over
GroupOf(cnts, i) == SubSeq(cnts, GroupSize * i + 1, GroupSize * i + GroupSize)

\* C6: for every group of four, sorted left to right, with pixel counts
\* c0..c3, the recorded letter is A + j for the smallest rank j with
\* cj = max(c0..c3) if that maximum is above 150, and the question is
\* unanswered if the maximum is 150 or less.
FirstMaximumAboveThresholdIsRecorded ==
    pc = "mark_done" =>
        \A i \in 0..((Len(question_cnts) \div 4) - 1) :
            LET group == GroupOf(question_cnts, i)
                row == sorted(group, [j \in 1..4 |-> <<group[j].x>>])
                c == [j \in 0..3 |-> row[j + 1].total]
                top == SetMax({c[j] : j \in 0..3})
                first == SetMin({j \in 0..3 : c[j] = top})
            IN IF top > 150
               THEN /\ (i + 1) \in DOMAIN student_answers
                    /\ student_answers[i + 1] = Letter(first)
               ELSE (i + 1) \notin DOMAIN student_answers

\* Two equal maxima above the threshold in the first group, recorded, and a
\* second group whose maximum is exactly the threshold, unanswered
TieRecordedAndThresholdUnanswered ==
    /\ pc = "mark_done"
    /\ Len(question_cnts) = 8
    /\ \E p, r \in 1..4 :
         /\ p # r
         /\ question_cnts[p].total = question_cnts[r].total
         /\ question_cnts[p].total > 150
         /\ \A o \in 1..4 : question_cnts[o].total <= question_cnts[p].total
    /\ 1 \in DOMAIN student_answers
    /\ SetMax({question_cnts[p].total : p \in 5..8}) = 150
    /\ 2 \notin DOMAIN student_answers

\* C10: a sequence of n contours gives floor(n / 4) groups, group i being the
\* elements 4i+1..4i+4 (counted from 1) and deciding question i + 1; the
\* n mod 4 trailing contours influence no answer; the letter recorded for a
\* question is the left-to-right rank, by x within its group, of a contour of
\* that group, whatever the order in which the group was handed over; the
\* response holds question numbers in 1..floor(n / 4) only.
GroupsOfFourDecideByRank ==
    pc = "mark_done" =>
        LET n == Len(question_cnts)
            groups == n \div 4
            rank(p) ==
                LET first == 4 * ((p - 1) \div 4) + 1
                IN Cardinality({o \in first..(first + 3) :
                       \/ question_cnts[o].x < question_cnts[p].x
                       \/ (question_cnts[o].x = question_cnts[p].x /\ o < p)})
            top(q) == SetMax({question_cnts[o].total : o \in (4 * q - 3)..(4 * q)})
        IN /\ DOMAIN student_answers \subseteq 1..groups
           /\ \A q \in 1..groups :
                q \in DOMAIN student_answers <=> top(q) > 150
           /\ \A q \in DOMAIN student_answers :
                \E p \in (4 * q - 3)..(4 * q) :
                    /\ question_cnts[p].total = top(q)
                    /\ student_answers[q] = Letter(rank(p))
           /\ student_answers =
                extract_student_answers(SubSeq(question_cnts, 1, 4 * groups))

\* A group handed over right to left whose answer is recorded, followed by
\* trailing contours that hold a filled bubble
UnsortedGroupWithFilledRemainder ==
    /\ pc = "mark_done"
    /\ Len(question_cnts) = 6
    /\ question_cnts[1].x > question_cnts[2].x
    /\ question_cnts[1].total > 150
    /\ question_cnts[2].total = 0
    /\ question_cnts[6].total > 150
    /\ DOMAIN student_answers = {1}
    /\ student_answers[1] # "A"

-----------------------------------------------------------------------------
(* Properties of the Grid Orderer, under SpecGrid *)

\* The band of x among 5 bands of equal width between lo and hi, the last
\* one closed on the right
BandOf(x, lo, hi) ==
    CHOOSE b \in 0..4 :
        /\ b * (hi - lo) <= 5 * (x - lo)
        /\ b < 4 => 5 * (x - lo) < (b + 1) * (hi - lo)

NotAfter(a, b) == \A i \in 1..Len(a) : (\A j \in 1..(i - 1) : a[j] = b[j]) => a[i] <= b[i]

\* What C7 says of an output out for the input in
SortedPermutation(in, out) ==
    LET n == Len(in)
        xs == {in[i].x : i \in 1..n}
        lo == SetMin(xs)
        hi == SetMax(xs)
    IN /\ Len(out) = n
       /\ {out[i].id : i \in 1..n} = 1..n
       /\ \A i \in 1..n : out[i] = in[out[i].id]
       /\ n <= 100 =>
            \A i \in 1..(n - 1) :
                NotAfter(<<out[i].x, out[i].y>>, <<out[i + 1].x, out[i + 1].y>>)
       /\ n > 100 =>
            \A i \in 1..(n - 1) :
                NotAfter(<<BandOf(out[i].x, lo, hi), out[i].y>>,
                         <<BandOf(out[i + 1].x, lo, hi), out[i + 1].y>>)

\* C7: for every set of accepted contours the Grid Orderer has an output,
\* which is a permutation of its input; with at most 100 contours it is
\* sorted by (x, y) ascending; with more than 100 it is sorted by (band, y)
\* ascending.
OrderIsSortedPermutation ==
    pc = "grid_done" =>
        /\ ~bubbles.raised
        /\ SortedPermutation(question_cnts, bubbles.cnts)

\* Every output the Grid Orderer does produce is as C7 says
ProducedOrderIsSortedPermutation ==
    (pc = "grid_done" /\ ~bubbles.raised) =>
        SortedPermutation(question_cnts, bubbles.cnts)

\* More than 100 contours, ordered by band: some contour comes before one
\* that lies to its left
OrderedByBand ==
    /\ pc = "grid_done"
    /\ ~bubbles.raised
    /\ Len(question_cnts) > 100
    /\ Len(bubbles.cnts) = Len(question_cnts)
    /\ \E i \in 1..(Len(bubbles.cnts) - 1) : bubbles.cnts[i].x > bubbles.cnts[i + 1].x

\* C8: with more than 100 contours every contour is assigned a band in 0..4
\* from its x and the least and greatest x alone, the contour at the
\* greatest x getting band 4 and the one at the least x band 0 when these
\* differ, and a contour to the left of another never gets a larger band;
\* this for every such set, also when all contours share one x.
EveryContourGetsAMonotoneBand ==
    (pc = "grid_done" /\ Len(question_cnts) > 100) =>
        LET n == Len(question_cnts)
            xs == {question_cnts[i].x : i \in 1..n}
            lo == SetMin(xs)
            hi == SetMax(xs)
            band(x) == get_col(x, lo, hi)
        IN /\ ~bubbles.raised
           /\ \A x \in xs : ~band(x).raised /\ band(x).col \in 0..4
           /\ \A x1, x2 \in xs : x1 <= x2 => band(x1).col <= band(x2).col
           /\ lo < hi => band(lo).col = 0 /\ band(hi).col = 4

\* With contours at more than one x, the bands are as C8 says
BandsOnPositiveSpan ==
    (pc = "grid_done" /\ Len(question_cnts) > 100) =>
        LET n == Len(question_cnts)
            xs == {question_cnts[i].x : i \in 1..n}
            lo == SetMin(xs)
            hi == SetMax(xs)
            band(x) == get_col(x, lo, hi)
        IN lo < hi =>
             /\ ~bubbles.raised
             /\ \A x \in xs : ~band(x).raised /\ band(x).col = BandOf(x, lo, hi)
             /\ \A x1, x2 \in xs : x1 <= x2 => band(x1).col <= band(x2).col
             /\ band(lo).col = 0 /\ band(hi).col = 4

-----------------------------------------------------------------------------
(* Properties of the Answer Key Reader, under SpecKey *)

\* The entry each cell of Cells stands for: <<number, letter>>, or <<>> for
\* a cell that is empty or does not match
EntryOf(cell) ==
    CASE cell = <<"3", "7", "-", "B">> -> <<37, "B">>
      [] cell = <<"3", "7", " ", "b">> -> <<37, "B">>
      [] cell = <<"3", "7", ".", "B">> -> <<37, "B">>
      [] cell = <<"3", "7", "-", "a">> -> <<37, "A">>
      [] cell = <<"7", ".", "c">> -> <<7, "C">>
      [] cell = <<"3", ".", "7", " ", "-", " ", "d">> -> <<7, "D">>
      [] OTHER -> <<>>

\* C9: the key maps each question number to the upper-cased letter of the
\* last matching cell that carries it and holds no other number; empty and
\* non-matching cells change nothing and do not fail the build; "37-B",
\* "37 b" and "37.B" each yield {37: "B"}.
KeyIsLastWriteWins ==
    (pc = "key_done" /\ key_raise > Len(key_cells)) =>
        LET key == answer_key.answers
            n == Len(key_cells)
            entry == [i \in 1..n |-> EntryOf(key_cells[i])]
        IN /\ ~answer_key.error
           /\ \A q \in DOMAIN key : \E i \in 1..n : entry[i] # <<>> /\ entry[i][1] = q
           /\ \A i \in 1..n :
                entry[i] # <<>> =>
                    /\ entry[i][1] \in DOMAIN key
                    /\ (\A j \in (i + 1)..n : entry[j] = <<>> \/ entry[j][1] # entry[i][1])
                       => key[entry[i][1]] = entry[i][2]

\* A key file in which question 37 is written twice around a cell that does
\* not match
KeyOverwritten ==
    /\ pc = "key_done"
    /\ key_raise > Len(key_cells)
    /\ key_cells = << <<"3", "7", "-", "a">>,
                     <<"n", "o", "t", "a", "n", "e", "n", "t", "r", "y">>,
                     <<"3", "7", " ", "b">> >>
    /\ answer_key.answers = (37 :> "B")

-----------------------------------------------------------------------------
(* Properties of the batch, under Spec *)

FragmentsOf(i) == LET of(f) == f.sheet = i IN SelectSeq(final_html_report, of)
TagsOf(i) == {FragmentsOf(i)[k].tag : k \in 1..Len(FragmentsOf(i))}

\* The outcomes recorded in the report: score, warning or error
Outcomes ==
    LET outcome(f) == f.tag \in {"score", "warning", "error"}
    IN SelectSeq(final_html_report, outcome)

\* C3: when the key was read, the returned report holds exactly one outcome
\* per submitted sheet, in submission order, whichever step of a sheet
\* failed.
OneOutcomePerSheet ==
    (pc = "done" /\ returned = "report") =>
        /\ Len(Outcomes) = Len(omr_images)
        /\ \A i \in 1..Len(Outcomes) : Outcomes[i].sheet = i

\* A batch in which no report assembly raises is as C3 says
OneOutcomeUnlessAssemblyRaises ==
    (/\ pc = "done"
     /\ returned = "report"
     /\ \A i \in 1..Len(omr_images) : omr_images[i].fault # "assemble") =>
        /\ Len(Outcomes) = Len(omr_images)
        /\ \A i \in 1..Len(Outcomes) : Outcomes[i].sheet = i

\* The report only grows: what is recorded for a sheet is never changed
ReportOnlyGrows ==
    [][/\ Len(final_html_report') >= Len(final_html_report)
       /\ SubSeq(final_html_report', 1, Len(final_html_report)) = final_html_report]_vars

\* C4: if reading the key fails at any point, parse_answer_key returns a
\* single error and no partial key, and score_omr_sheets returns only that
\* error: no sheet is gone through or given an outcome.
KeyFailureIsFatal ==
    (pc # "start" /\ key_raise <= Len(key_cells)) =>
        /\ answer_key.error
        /\ answer_key.answers = EmptyDict
        /\ pc = "done"
        /\ returned = "key_error"
        /\ idx = 0
        /\ final_html_report = <<>>

\* Reading the key failed after entries had been accumulated, with sheets
\* submitted
KeyFailedAfterEntries ==
    /\ pc = "done"
    /\ returned = "key_error"
    /\ key_raise > 1
    /\ key_loop(key_cells, key_raise - 1) # EmptyDict
    /\ omr_images # <<>>

\* C5: a sheet is scored if and only if the Grid Orderer returns at least
\* 100 contours: with 99 or fewer the sheet gets a warning, no score and no
\* rows; with 100 or more it gets no warning and, nothing else failing, a
\* score and 100 rows; the batch goes on to the sheets that follow.
ScoredIffEnoughBubbles ==
    /\ Len(detected) = idx
    /\ \A i \in 1..idx :
         LET returns == detected[i] >= 0
             frs == FragmentsOf(i)
             tags == {frs[k].tag : k \in 1..Len(frs)}
         IN /\ returns => detected[i] = Len(omr_images[i].image.cnts)
            /\ (returns /\ detected[i] <= 99) =>
                  frs = <<Fragment("warning", i, detected[i], <<>>)>>
            /\ (returns /\ detected[i] >= 100) =>
                  /\ "warning" \notin tags
                  /\ omr_images[i].fault = "none" =>
                       /\ "score" \in tags
                       /\ \E k \in 1..Len(frs) :
                            frs[k].tag = "table" /\ Len(frs[k].rows) = 100
            /\ "score" \in tags => (returns /\ detected[i] >= 100)
            /\ "table" \in tags => "score" \in tags
    /\ (pc = "done" /\ returned = "report") => idx = Len(omr_images)

\* A sheet with exactly 99 contours warned about, and after it a sheet with
\* exactly 100 scored
WarnedAt99ScoredAt100 ==
    /\ pc = "done"
    /\ Len(omr_images) = 2
    /\ detected = <<99, 100>>
    /\ TagsOf(1) = {"warning"}
    /\ TagsOf(2) = {"results_h2", "score", "table", "hr"}

====
